---------------------------- MODULE Spec2Model ----------------------------
(***************************************************************************)
(* Model of src/TexasHoldem.tsx: the TexasHoldem React component (a        *)
(* heads-up Texas Hold'em round against a CPU) and its hand evaluator.     *)
(*                                                                         *)
(* Every handler of the component is one atomic action.  A handler reads   *)
(* the state of the render it was created in (its closure) and queues      *)
(* updates; React applies the queue before the next event.  A functional   *)
(* update setX(c => f(c)) is applied to the value the queue has produced   *)
(* so far, a plain read of x inside the handler yields the value of the    *)
(* last render.  The operators below therefore pass the queued values as   *)
(* parameters (pc, cc, pt) and read the unprimed variables where the code  *)
(* reads its closure.                                                      *)
(*                                                                         *)
(* Chip amounts are integers.  strength is kept times 100 (base * 100 +    *)
(* highest rank value), which orders hands exactly as base + kicker / 100. *)
(***************************************************************************)
EXTENDS Integers, Sequences, FiniteSets, TLC

VARIABLES
    deck,          \* useState deck       (line 101)
    player,        \* useState player     (line 102)
    cpu,           \* useState cpu        (line 103)
    community,     \* useState community  (line 104)
    message,       \* useState message    (line 105)
    stage,         \* useState stage      (line 106)
    playerChips,   \* useState playerChips (line 107)
    cpuChips,      \* useState cpuChips   (line 108)
    pot,           \* useState pot        (line 109)
    bet,           \* useState bet        (line 110)
    build,         \* how React runs updater functions: once, or twice under
                   \* React.StrictMode in a development build (lines 312-316)
    evalCalls,     \* the evaluateHandRank calls made by the last handler
    stacksAtDeal,  \* history: playerChips + cpuChips just before the last deal
    clicks         \* history: number of handler calls so far

vars == <<deck, player, cpu, community, message, stage, playerChips, cpuChips,
          pot, bet, build, evalCalls, stacksAtDeal, clicks>>

\* The round state of the specification: everything but the message, the
\* bet unit and the history variables.
roundState == <<stage, deck, player, cpu, community, playerChips, cpuChips, pot>>

-----------------------------------------------------------------------------
(* Bounds of the model *)

\* handler calls in one behaviour
MaxClicks == 6

\* handler calls in one behaviour of SpecCore
MaxCalls == 4

\* cards of Pool from which the hands given to the evaluator are taken
PoolSize == 8

\* values typed into the bet input; all even, so that every pot is even and
\* pot / 2 is an integer (PotIsEven below)
BetInputs == {-10, 4, 950}

\* Math.random() in hundredths, one value for each interval the code tests
RandomDraws == {5, 20, 60}

-----------------------------------------------------------------------------
(* Cards and the deck *)

SUITS == <<"S", "H", "D", "C">>

RANKS == <<"2", "3", "4", "5", "6", "7", "8", "9", "10", "J", "Q", "K", "A">>

Card(r, s) == [rank |-> r, suit |-> s]

Max(S) == CHOOSE m \in S : \A x \in S : x <= m

\* Math.max where Math.min is meant
Min_largest(S) == CHOOSE m \in S : \A x \in S : x <= m

Min(S) == CHOOSE m \in S : \A x \in S : m <= x

\* Array.prototype.indexOf, 0-based, -1 when absent
indexOf(seq, x) ==
    LET found == {i \in DOMAIN seq : seq[i] = x}
    IN  IF found = {} THEN -1 ELSE Min(found) - 1

\* the deck of lines 10-15, before the shuffle: suit by suit, ranks ascending
unshuffled ==
    [i \in 1..(Len(SUITS) * Len(RANKS)) |->
        Card(RANKS[((i - 1) % Len(RANKS)) + 1], SUITS[((i - 1) \div Len(RANKS)) + 1])]

AllCards == {unshuffled[i] : i \in DOMAIN unshuffled}

Reverse(seq) == [i \in 1..Len(seq) |-> seq[Len(seq) + 1 - i]]

SeqToSet(seq) == {seq[i] : i \in DOMAIN seq}

\* Array.prototype.pop applied n times: the cards popped, first pop first
popped(d, n) == [i \in 1..n |-> d[Len(d) + 1 - i]]

\* the array that n pops leave
afterPop(d, n) == SubSeq(d, 1, Len(d) - n)

\* The cards that come off the top first in the shuffle outcomes 1..Len(Tops):
\* player, player, cpu, cpu, flop x 3, then the four cards from which the
\* turn and the river are drawn.
Tops ==
    << \* both sides end with high card ace: a draw
       << Card("2", "S"), Card("3", "H"), Card("2", "D"), Card("4", "C"),
          Card("A", "S"), Card("K", "D"), Card("9", "C"),
          Card("7", "H"), Card("7", "D"), Card("J", "D"), Card("J", "C") >>,
       \* the player pairs aces, the cpu has nothing
       << Card("A", "S"), Card("A", "H"), Card("7", "D"), Card("2", "C"),
          Card("K", "S"), Card("9", "D"), Card("4", "C"),
          Card("5", "H"), Card("5", "S"), Card("J", "D"), Card("J", "S") >>,
       \* the cpu flops a flush (strength > 5)
       << Card("3", "S"), Card("4", "D"), Card("A", "H"), Card("K", "H"),
          Card("2", "H"), Card("7", "H"), Card("9", "H"),
          Card("J", "C"), Card("J", "S"), Card("Q", "D"), Card("Q", "C") >> >>

\* one outcome of the Fisher-Yates shuffle of lines 16-19, which can return
\* any permutation of the 52 cards: the one that ends with top, reversed
shuffled(top) ==
    SelectSeq(unshuffled, LAMBDA c : c \notin SeqToSet(top)) \o Reverse(top)

\* lines 9-21: the decks freshDeck() may return
freshDeck == {shuffled(Tops[k]) : k \in DOMAIN Tops}

-----------------------------------------------------------------------------
(* evaluateHandRank, lines 52-98 *)

\* RANKS.indexOf(c.rank) + 2 (line 53)
rankValue(c) == indexOf(RANKS, c.rank) + 2

\* Array.prototype.sort((a, b) => a - b) of a sequence of numbers
RECURSIVE sortAscending(_)
sortAscending(seq) ==
    IF seq = <<>> THEN <<>>
    ELSE LET m == Min(SeqToSet(seq))
             at == CHOOSE i \in DOMAIN seq : seq[i] = m
         IN  <<m>> \o sortAscending(SubSeq(seq, 1, at - 1) \o SubSeq(seq, at + 1, Len(seq)))

\* line 53: the rank values of the cards, ascending
ranksOf(cards) == sortAscending([i \in DOMAIN cards |-> rankValue(cards[i])])

\* [...new Set(ranks)], line 68: the distinct values in order of first
\* occurrence, which is ascending as ranks is sorted
uniqueRanksOf(ranks) ==
    SelectSeq([i \in DOMAIN ranks |-> IF i > 1 /\ ranks[i - 1] = ranks[i] THEN 0 ELSE ranks[i]],
              LAMBDA v : v # 0)

\* Object.values(counts), lines 55-59: for each distinct rank value, the
\* number of cards that have it
valuesOf(ranks) ==
    LET unique == uniqueRanksOf(ranks)
    IN  [k \in DOMAIN unique |-> Cardinality({i \in DOMAIN ranks : ranks[i] = unique[k]})]

\* Array.prototype.includes
includes(seq, x) == \E i \in DOMAIN seq : seq[i] = x

\* Array.prototype.slice(-n)
sliceLast(seq, n) == IF Len(seq) <= n THEN seq ELSE SubSeq(seq, Len(seq) - n + 1, Len(seq))

\* lines 60-66: some suit occurs at least 5 times
flush(cards) ==
    \E s \in SeqToSet(SUITS) : Cardinality({i \in DOMAIN cards : cards[i].suit = s}) >= 5

\* line 69: there are 5 distinct rank values and the five highest are
\* consecutive
straight(uniqueRanks) ==
    LET arr == sliceLast(uniqueRanks, 5)
    IN  /\ Len(uniqueRanks) >= 5
        /\ \A i \in DOMAIN arr : i = 1 \/ arr[i] = arr[i - 1] + 1

rankOrder ==
    << "High Card", "One Pair", "Two Pairs", "Triple", "Straight", "Flush",
       "Full-House", "Four Card", "Straight Flush", "Royale Straight Flush" >>

\* lines 84-93
rankNameOf(isStraight, isFlush, ranks, values) ==
    IF isStraight /\ isFlush /\ includes(ranks, 14) THEN "Royale Straight Flush"
    ELSE IF isStraight /\ isFlush THEN "Straight Flush"
    ELSE IF includes(values, 4) THEN "Four Cards"
    ELSE IF includes(values, 3) /\ includes(values, 2) THEN "Full-House"
    ELSE IF isFlush THEN "Flush"
    ELSE IF isStraight THEN "Straight"
    ELSE IF includes(values, 3) THEN "Triple"
    ELSE IF Len(SelectSeq(values, LAMBDA v : v = 2)) = 2 THEN "Two Pairs"
    ELSE IF includes(values, 2) THEN "One Pair"
    ELSE "High Card"

\* lines 52-98; strength is base + kicker / 100, kept here times 100
evaluateHandRank(cards) ==
    LET ranks == ranksOf(cards)
        values == valuesOf(ranks)
        rankName == rankNameOf(straight(uniqueRanksOf(ranks)), flush(cards), ranks, values)
        base == indexOf(rankOrder, rankName)
        kicker == Max(SeqToSet(ranks))
    IN  [rank |-> rankName, strength |-> base * 100 + kicker]

-----------------------------------------------------------------------------
(* The component's state after construction, lines 101-110 *)

InitialChips == 1000

DefaultBet == 50

\* one evaluateHandRank call: its argument and what it returned
Call(cards) ==
    LET result == evaluateHandRank(cards)
    IN  [cards |-> cards, rank |-> result.rank, strength |-> result.strength]

\* number of times React runs an updater function that is queued behind
\* other updates: once, and a second time when the tree is rendered under
\* React.StrictMode by a development build (lines 312-316)
updaterRuns == IF build = "development" THEN 2 ELSE 1

Init ==
    /\ deck \in freshDeck
    /\ player = <<>>
    /\ cpu = <<>>
    /\ community = <<>>
    /\ message = ""
    /\ stage = "ready"
    /\ playerChips = InitialChips
    /\ cpuChips = InitialChips
    /\ pot = 0
    /\ bet = DefaultBet
    /\ build \in {"production", "development"}
    /\ evalCalls = <<>>
    /\ stacksAtDeal = 2 * InitialChips
    /\ clicks = 0

-----------------------------------------------------------------------------
(* The handlers.  None of them mentions clicks: the actions below count. *)

\* the refusal of deal with < for <=: a stack of exactly 0 is dealt in
bankrupt_strict == playerChips < 0 \/ cpuChips < 0

\* line 113: the condition on which deal refuses
bankrupt == playerChips <= 0 \/ cpuChips <= 0

\* lines 112-127
deal ==
    IF bankrupt
    THEN /\ message' = "Game Over. One player is bankrupt."
         /\ evalCalls' = <<>>
         /\ UNCHANGED <<deck, player, cpu, community, stage, playerChips, cpuChips,
                        pot, bet, build, stacksAtDeal>>
    ELSE LET initBet == Min({bet, playerChips, cpuChips})
         IN  /\ player' = popped(deck, 2)
             /\ cpu' = SubSeq(popped(deck, 4), 3, 4)
             /\ deck' = afterPop(deck, 4)
             /\ community' = <<>>
             /\ message' = ""
             /\ stage' = "playing"
             /\ pot' = initBet * 2
             /\ playerChips' = playerChips - initBet
             /\ cpuChips' = cpuChips - initBet
             /\ evalCalls' = <<>>
             /\ stacksAtDeal' = playerChips + cpuChips
             /\ UNCHANGED <<bet, build>>

\* lines 142-158, called with the updates queued so far: pc, cc and pt are
\* the queued playerChips, cpuChips and pot, calls the evaluator calls made.
\* pot is the handler's closure value; setPot is not called.
evaluateWinner(pc, cc, pt, calls) ==
    LET playerEval == Call(player \o community)
        cpuEval == Call(cpu \o community)
    IN  /\ IF playerEval.strength > cpuEval.strength
           THEN /\ message' = "You Win! (" \o playerEval.rank \o ")"
                /\ playerChips' = pc + pot
                /\ cpuChips' = cc
           ELSE IF playerEval.strength < cpuEval.strength
           THEN /\ message' = "CPU Wins. (" \o cpuEval.rank \o ")"
                /\ playerChips' = pc
                /\ cpuChips' = cc + pot
           ELSE /\ message' = "Draw. (" \o playerEval.rank \o ")"
                /\ playerChips' = pc + (pot \div 2)
                /\ cpuChips' = cc + (pot \div 2)
        /\ stage' = "showdown"
        /\ pot' = pt
        /\ evalCalls' = calls \o <<playerEval, cpuEval>>
        /\ UNCHANGED <<deck, player, cpu, community, bet, build, stacksAtDeal>>

\* nextStage going to the showdown from four community cards
nextStage_earlyShowdown(pc, cc, pt, msg, calls) ==
    IF Len(community) < 3
    THEN /\ community' = popped(deck, 3)
         /\ deck' = afterPop(deck, 3)
         /\ playerChips' = pc
         /\ cpuChips' = cc
         /\ pot' = pt
         /\ message' = msg
         /\ evalCalls' = calls
         /\ UNCHANGED <<player, cpu, stage, bet, build, stacksAtDeal>>
    ELSE IF Len(community) < 4
    THEN /\ community' = Append(community, popped(deck, updaterRuns)[updaterRuns])
         /\ deck' = afterPop(deck, updaterRuns)
         /\ playerChips' = pc
         /\ cpuChips' = cc
         /\ pot' = pt
         /\ message' = msg
         /\ evalCalls' = calls
         /\ UNCHANGED <<player, cpu, stage, bet, build, stacksAtDeal>>
    ELSE evaluateWinner(pc, cc, pt, calls)

\* lines 129-140, called with the updates queued so far (msg is the queued
\* message).  The turn and the river are popped inside an updater function,
\* from the array that setDeck installs: each run of the updater pops a card
\* and the last run's card is the one appended.
nextStage(pc, cc, pt, msg, calls) ==
    IF Len(community) < 3
    THEN /\ community' = popped(deck, 3)
         /\ deck' = afterPop(deck, 3)
         /\ playerChips' = pc
         /\ cpuChips' = cc
         /\ pot' = pt
         /\ message' = msg
         /\ evalCalls' = calls
         /\ UNCHANGED <<player, cpu, stage, bet, build, stacksAtDeal>>
    ELSE IF Len(community) < 5
    THEN /\ community' = Append(community, popped(deck, updaterRuns)[updaterRuns])
         /\ deck' = afterPop(deck, updaterRuns)
         /\ playerChips' = pc
         /\ cpuChips' = cc
         /\ pot' = pt
         /\ message' = msg
         /\ evalCalls' = calls
         /\ UNCHANGED <<player, cpu, stage, bet, build, stacksAtDeal>>
    ELSE evaluateWinner(pc, cc, pt, calls)

\* reset without setPot(0)
reset_keepsPot(d) ==
    /\ deck' = d
    /\ player' = <<>>
    /\ cpu' = <<>>
    /\ community' = <<>>
    /\ message' = ""
    /\ stage' = "ready"
    /\ evalCalls' = <<>>
    /\ UNCHANGED <<playerChips, cpuChips, pot, bet, build, stacksAtDeal>>

\* lines 160-168; d is the deck freshDeck() returns
reset(d) ==
    /\ deck' = d
    /\ player' = <<>>
    /\ cpu' = <<>>
    /\ community' = <<>>
    /\ message' = ""
    /\ stage' = "ready"
    /\ pot' = 0
    /\ evalCalls' = <<>>
    /\ UNCHANGED <<playerChips, cpuChips, bet, build, stacksAtDeal>>

\* cpuFolds paying the closure's pot only: the player's own raise is lost
cpuFolds_potOnly(raiseAmount, pc, pt, msg, calls) ==
    /\ message' = msg
    /\ playerChips' = pc + pot
    /\ stage' = "folded"
    /\ pot' = pt
    /\ evalCalls' = calls
    /\ UNCHANGED <<deck, player, cpu, community, cpuChips, bet, build, stacksAtDeal>>

\* the opponent gives up, lines 182-185 and 188-191: the player is paid the
\* closure's pot plus the raise; setPot and setCpuChips are not called
cpuFolds(raiseAmount, pc, pt, msg, calls) ==
    /\ message' = msg
    /\ playerChips' = pc + pot + raiseAmount
    /\ stage' = "folded"
    /\ pot' = pt
    /\ evalCalls' = calls
    /\ UNCHANGED <<deck, player, cpu, community, cpuChips, bet, build, stacksAtDeal>>

\* lines 170-208; bluffChance and coin are the two Math.random() draws in
\* hundredths, pc and pt the playerChips and pot queued by the caller
cpuDecision(playerRaised, raiseAmount, pc, pt, bluffChance, coin) ==
    LET cpuEval == Call(cpu \o community)
        strength == cpuEval.strength
    IN  IF playerRaised
        THEN IF strength > 500 \/ bluffChance < 25
             THEN IF cpuChips >= raiseAmount
                  THEN nextStage(pc, cpuChips - raiseAmount, pt + raiseAmount,
                                 "CPU calls your raise.", <<cpuEval>>)
                  ELSE cpuFolds(raiseAmount, pc, pt,
                                "CPU can't afford your raise and folds. You win!", <<cpuEval>>)
             ELSE cpuFolds(raiseAmount, pc, pt, "CPU folds. You win!", <<cpuEval>>)
        ELSE IF bluffChance < 10
             THEN nextStage(pc, cpuChips - bet, pt + bet, "CPU bluffs and raises!", <<cpuEval>>)
             ELSE IF strength > 500 /\ coin < 50
             THEN nextStage(pc, cpuChips - bet, pt + bet, "CPU raises confidently.", <<cpuEval>>)
             ELSE nextStage(pc, cpuChips, pt, "CPU checks.", <<cpuEval>>)

\* what a handler whose condition fails does: nothing
noUpdate ==
    /\ evalCalls' = <<>>
    /\ UNCHANGED <<deck, player, cpu, community, message, stage, playerChips, cpuChips,
                   pot, bet, build, stacksAtDeal>>

\* lines 210-215
handleCheck(bluffChance, coin) ==
    IF stage = "playing"
    THEN cpuDecision(FALSE, bet, playerChips, pot, bluffChance, coin)
    ELSE noUpdate

\* handleRaise without its setPot: the raise leaves the stack and reaches no pot
handleRaise_noSetPot(bluffChance, coin) ==
    IF stage = "playing" /\ playerChips >= bet
    THEN cpuDecision(TRUE, bet, playerChips - bet, pot, bluffChance, coin)
    ELSE noUpdate

\* lines 217-225
handleRaise(bluffChance, coin) ==
    IF stage = "playing" /\ playerChips >= bet
    THEN cpuDecision(TRUE, bet, playerChips - bet, pot + bet, bluffChance, coin)
    ELSE noUpdate

\* lines 227-231
handleFold ==
    /\ message' = "You Fold. CPU Wins."
    /\ cpuChips' = cpuChips + pot
    /\ stage' = "folded"
    /\ evalCalls' = <<>>
    /\ UNCHANGED <<deck, player, cpu, community, playerChips, pot, bet, build,
                   stacksAtDeal>>

\* the bet input's onChange, line 276: any number can be typed
setBet(v) ==
    /\ bet' = v
    /\ evalCalls' = <<>>
    /\ UNCHANGED <<deck, player, cpu, community, message, stage, playerChips, cpuChips,
                   pot, build, stacksAtDeal>>

-----------------------------------------------------------------------------
(* The component as rendered: a handler runs when its button is clicked,   *)
(* and a button exists only in the stage that renders it (lines 262-291).  *)

\* one more handler call, while the bound allows it
canClick == clicks < MaxClicks

ClickDeal == canClick /\ stage = "ready" /\ deal /\ clicks' = clicks + 1

ClickCheck ==
    /\ canClick
    /\ stage = "playing"
    /\ \E bluffChance \in RandomDraws, coin \in RandomDraws : handleCheck(bluffChance, coin)
    /\ clicks' = clicks + 1

ClickRaise ==
    /\ canClick
    /\ stage = "playing"
    /\ \E bluffChance \in RandomDraws, coin \in RandomDraws : handleRaise(bluffChance, coin)
    /\ clicks' = clicks + 1

\* the Fold button rendered in every stage
ClickFold_everyStage == canClick /\ handleFold /\ clicks' = clicks + 1

ClickFold == canClick /\ stage = "playing" /\ handleFold /\ clicks' = clicks + 1

ClickReset ==
    /\ canClick
    /\ stage \in {"showdown", "folded"}
    /\ \E d \in freshDeck : reset(d)
    /\ clicks' = clicks + 1

ChangeBet ==
    /\ canClick
    /\ stage = "playing"
    /\ \E v \in BetInputs : v # bet /\ setBet(v)
    /\ clicks' = clicks + 1

Next == ClickDeal \/ ClickCheck \/ ClickRaise \/ ClickFold \/ ClickReset \/ ChangeBet

Spec == Init /\ [][Next]_vars

-----------------------------------------------------------------------------
(* The handlers as the operations deal, check, raise, fold and reset of    *)
(* the round state machine: each can be invoked in every phase.            *)

canCall == clicks < MaxCalls

CallDeal == canCall /\ deal /\ clicks' = clicks + 1

CallCheck ==
    /\ canCall
    /\ \E bluffChance \in RandomDraws, coin \in RandomDraws : handleCheck(bluffChance, coin)
    /\ clicks' = clicks + 1

CallRaise ==
    /\ canCall
    /\ \E bluffChance \in RandomDraws, coin \in RandomDraws : handleRaise(bluffChance, coin)
    /\ clicks' = clicks + 1

CallFold == canCall /\ handleFold /\ clicks' = clicks + 1

CallReset == canCall /\ (\E d \in freshDeck : reset(d)) /\ clicks' = clicks + 1

CallSetBet == canCall /\ (\E v \in BetInputs : v # bet /\ setBet(v)) /\ clicks' = clicks + 1

NextCore == CallDeal \/ CallCheck \/ CallRaise \/ CallFold \/ CallReset \/ CallSetBet

SpecCore == Init /\ [][NextCore]_vars

-----------------------------------------------------------------------------
(* The evaluator alone, applied to pairs of hands of 5 to 7 cards taken    *)
(* from the first PoolSize cards of one of the Pools.                      *)

Pool ==
    << Card("A", "S"), Card("A", "H"), Card("A", "D"), Card("A", "C"),
       Card("K", "S"), Card("K", "H"), Card("Q", "S"), Card("J", "S"),
       Card("10", "S"), Card("9", "H") >>

\* two ranks three times each, and a pair's worth of other cards
TriplesPool ==
    << Card("K", "S"), Card("K", "H"), Card("K", "D"), Card("Q", "S"),
       Card("Q", "H"), Card("Q", "D"), Card("9", "C"), Card("2", "H"),
       Card("5", "D"), Card("7", "C") >>

\* a run of five low ranks below unconnected high cards
RunPool ==
    << Card("2", "S"), Card("3", "H"), Card("4", "D"), Card("5", "C"),
       Card("6", "S"), Card("9", "H"), Card("K", "D"), Card("A", "C"),
       Card("7", "H"), Card("8", "D") >>

Pools == <<Pool, TriplesPool, RunPool>>

HandsOf(pool) ==
    {SelectSeq(SubSeq(pool, 1, PoolSize), LAMBDA c : c \in S) :
        S \in {T \in SUBSET SeqToSet(SubSeq(pool, 1, PoolSize)) : Cardinality(T) \in 5..7}}

Hands == HandsOf(Pool)

InitEval == Init /\ deck = shuffled(Tops[1]) /\ build = "production"

Evaluate ==
    /\ clicks = 0
    /\ \E k \in DOMAIN Pools :
         \E a \in HandsOf(Pools[k]), b \in HandsOf(Pools[k]) :
            evalCalls' = <<Call(a), Call(b)>>
    /\ clicks' = 1
    /\ UNCHANGED <<deck, player, cpu, community, message, stage, playerChips, cpuChips,
                   pot, bet, build, stacksAtDeal>>

NextEval == Evaluate

SpecEval == InitEval /\ [][NextEval]_vars

-----------------------------------------------------------------------------
(* Properties *)

\* Every pot is even, so that pot / 2 at a draw is the integer pot \div 2.
PotIsEven == pot % 2 = 0

\* C1: whenever the phase is Showdown or Folded, the two stacks together
\* hold what they held immediately before the round's deal: every chip
\* committed in the round has been paid out.
C1_NoChipLostOrCreated ==
    stage \in {"showdown", "folded"} => playerChips + cpuChips = stacksAtDeal

\* C2: while the round is in Playing, playerChips + cpuChips + pot equals
\* the two stacks' total before the deal.
C2_ChipsConservedWhilePlaying ==
    stage = "playing" => playerChips + cpuChips + pot = stacksAtDeal

\* the opponent has called or raised in answer to the player, after the flop
C2_Witness ==
    /\ stage = "playing"
    /\ Len(community) >= 3
    /\ message \in {"CPU calls your raise.", "CPU bluffs and raises!"}
    /\ pot > 2 * DefaultBet

\* C3: at the showdown the side with the strictly higher strength has its
\* stack increased by the entire pot, the chips committed in the step that
\* triggers the showdown included (pIn by the player, cIn by the opponent),
\* and the other stack is unchanged; on equal strength each stack is
\* increased by half of that pot.
C3_ShowdownPaysEntirePot ==
    [][ (stage = "playing" /\ stage' = "showdown") =>
        LET playerStrength == evaluateHandRank(player \o community).strength
            cpuStrength == evaluateHandRank(cpu \o community).strength
        IN  \E pIn \in {0, bet}, cIn \in {0, bet} :
                /\ pot' = pot + pIn + cIn
                /\ IF playerStrength > cpuStrength
                   THEN /\ playerChips' = (playerChips - pIn) + pot'
                        /\ cpuChips' = cpuChips - cIn
                   ELSE IF playerStrength < cpuStrength
                   THEN /\ playerChips' = playerChips - pIn
                        /\ cpuChips' = (cpuChips - cIn) + pot'
                   ELSE /\ 2 * (playerChips' - (playerChips - pIn)) = pot'
                        /\ 2 * (cpuChips' - (cpuChips - cIn)) = pot'
      ]_vars

\* The categories in the order of the specification (HighCard < OnePair <
\* ... < RoyalStraightFlush), under the names evaluateHandRank returns.
HandRank ==
    << "High Card", "One Pair", "Two Pairs", "Triple", "Straight", "Flush",
       "Full-House", "Four Cards", "Straight Flush", "Royale Straight Flush" >>

categoryIndex(name) == CHOOSE k \in DOMAIN HandRank : HandRank[k] = name

\* C4: of any two evaluated hands, the one in the higher category has the
\* strictly greater strength, whatever the kickers.
C4_CategoryDominatesKicker ==
    \A i \in DOMAIN evalCalls, j \in DOMAIN evalCalls :
        (/\ Len(evalCalls[i].cards) \in 5..7
         /\ Len(evalCalls[j].cards) \in 5..7
         /\ categoryIndex(evalCalls[i].rank) > categoryIndex(evalCalls[j].rank))
        => evalCalls[i].strength > evalCalls[j].strength

\* C5: check, raise and fold invoked when the phase is not Playing, and
\* reset invoked when the phase is neither Showdown nor Folded, leave the
\* round state (phase, deck, hole cards, community, stacks, pot) unchanged.
C5_OutOfPhaseIsNoOp ==
    [][ (\/ stage # "playing" /\ (CallCheck \/ CallRaise \/ CallFold)
         \/ stage \notin {"showdown", "folded"} /\ CallReset)
        => UNCHANGED roundState ]_vars

\* C6: deal with playerChips <= 0 or cpuChips <= 0 changes the message to
\* the game-over message and nothing of the round state.
C6_DealRefusedWhenBankrupt ==
    [][ (ClickDeal /\ (playerChips <= 0 \/ cpuChips <= 0))
        => /\ UNCHANGED roundState
           /\ message' = "Game Over. One player is bankrupt." ]_vars

\* a deal has been refused
C6_Witness ==
    /\ stage = "ready"
    /\ playerChips <= 0 \/ cpuChips <= 0
    /\ message = "Game Over. One player is bankrupt."

\* C7: an accepted raise that the opponent does not call, because its
\* policy folds (neither strength > 5 nor r < 0.25) or because it cannot
\* afford the raise, ends the round in Folded with no card drawn, the
\* opponent's stack unchanged and the player's stack at its value before
\* the raise plus the pot before the raise.
C7_UncalledRaise ==
    [][ (stage = "playing" /\ playerChips >= bet) =>
        LET strength == evaluateHandRank(cpu \o community).strength
        IN  \A r \in RandomDraws :
              (/\ cpuChips < bet \/ ~(r < 25 \/ strength > 500)
               /\ \E coin \in RandomDraws : handleRaise(r, coin))
              => /\ stage' = "folded"
                 /\ community' = community
                 /\ deck' = deck
                 /\ cpuChips' = cpuChips
                 /\ playerChips' = playerChips + pot ]_vars

\* the opponent would have called a raise that it could not afford
C7_Witness ==
    /\ stage = "folded"
    /\ message = "CPU can't afford your raise and folds. You win!"
    /\ cpuChips < bet
    /\ bet > 0

\* C8: whenever the phase is Showdown or Folded, the pot is empty.
C8_PotEmptyAfterSettlement == stage \in {"showdown", "folded"} => pot = 0

\* C9: from a deal until the next reset, the deck, the two hole hands and
\* the community cards hold each of the 52 cards exactly once.
C9_DeckInvariant ==
    stage # "ready" =>
        LET dealt == deck \o player \o cpu \o community
        IN  Len(dealt) = Cardinality(AllCards) /\ SeqToSet(dealt) = AllCards

\* C10: whenever a raise is accepted or a deal takes the ante, the bet unit
\* is a multiple of 10 with 10 <= bet <= playerChips.
C10_BetUnitWithinBounds ==
    [][ (\/ ClickRaise /\ playerChips >= bet
         \/ ClickDeal /\ ~bankrupt)
        => (bet % 10 = 0 /\ 10 <= bet /\ bet <= playerChips) ]_vars

fullDeck(d) == Len(d) = 52 /\ SeqToSet(d) = AllCards

\* C12: reset from Showdown or Folded leaves both stacks as they were, sets
\* pot to 0, empties both hands and the community, installs a full 52-card
\* deck and sets the phase to Ready.
C12_ResetFrame ==
    [][ ClickReset =>
        /\ stage \in {"showdown", "folded"}
        /\ playerChips' = playerChips
        /\ cpuChips' = cpuChips
        /\ pot' = 0
        /\ player' = <<>>
        /\ cpu' = <<>>
        /\ community' = <<>>
        /\ fullDeck(deck')
        /\ stage' = "ready" ]_vars

\* Ready again after a round that moved chips
C12_Witness ==
    /\ stage = "ready"
    /\ clicks > 0
    /\ playerChips # InitialChips
    /\ player = <<>>
    /\ fullDeck(deck)

\* C13: a deal with both stacks positive takes the same ante, the least of
\* bet, playerChips and cpuChips, from each stack, sets pot to twice the ante,
\* deals two cards to each side from a full 52-card deck, leaves the community
\* empty and sets the phase to Playing; no stack goes below zero.
C13_SuccessfulDeal ==
    [][ (ClickDeal /\ playerChips > 0 /\ cpuChips > 0) =>
        LET ante == playerChips - playerChips'
        IN  /\ ante \in {bet, playerChips, cpuChips}
            /\ ante <= bet /\ ante <= playerChips /\ ante <= cpuChips
            /\ cpuChips' = cpuChips - ante
            /\ pot' = 2 * ante
            /\ fullDeck(deck)
            /\ Len(player') = 2 /\ Len(cpu') = 2
            /\ Len(deck') = 48
            /\ fullDeck(deck' \o cpu' \o player')
            /\ community' = <<>>
            /\ stage' = "playing"
            /\ playerChips' >= 0 /\ cpuChips' >= 0 ]_vars

\* just dealt: four hole cards out, the ante of both sides in the pot
C13_Witness ==
    /\ stage = "playing"
    /\ community = <<>>
    /\ Len(player) = 2 /\ Len(cpu) = 2
    /\ Len(deck) = 48
    /\ pot = 2 * DefaultBet
    /\ playerChips = InitialChips - DefaultBet
    /\ cpuChips = InitialChips - DefaultBet

\* C14: no chip stack is ever negative, also after the opponent raises by
\* the bet unit in answer to a check with a stack smaller than the bet unit.
C14_StacksNonNegative == playerChips >= 0 /\ cpuChips >= 0

\* a step in which cpuDecision ran (it always calls the evaluator) and the
\* opponent did not fold, so that nextStage ran: an accepted check or raise
nextStageRan == stage = "playing" /\ evalCalls' # <<>> /\ stage' # "folded"

\* C15: the community holds 0, 3, 4 or 5 cards; nextStage draws exactly 3
\* cards from the deck when the community is empty, exactly 1 when it holds 3
\* or 4, and with 5 it goes to showdown and leaves the deck as it is; showdown
\* is never entered with fewer than 5 community cards.
C15_StagedReveal ==
    [][ /\ Len(community') \in {0, 3, 4, 5}
        /\ nextStageRan =>
             /\ Len(community) = 0 =>
                  Len(community') = 3 /\ Len(deck') = Len(deck) - 3
             /\ Len(community) \in {3, 4} =>
                  Len(community') = Len(community) + 1 /\ Len(deck') = Len(deck) - 1
             /\ Len(community) = 5 =>
                  stage' = "showdown" /\ deck' = deck /\ community' = community
        /\ (stage' = "showdown" /\ stage # "showdown") => Len(community) = 5 ]_vars

\* C18: every call of the evaluator made by a round, by cpuDecision after a
\* check or a raise and by evaluateWinner, receives at least 5 distinct cards.
C18_EvaluatorGetsFiveCards ==
    \A i \in DOMAIN evalCalls :
        /\ Len(evalCalls[i].cards) >= 5
        /\ Cardinality(SeqToSet(evalCalls[i].cards)) = Len(evalCalls[i].cards)

\* the rank values 2..14 of the cards, in the order of the cards
valuesIn(cards) == [i \in DOMAIN cards |-> rankValue(cards[i])]

\* how many of the rank values vals are v
timesOf(vals, v) == Cardinality({i \in DOMAIN vals : vals[i] = v})

\* five consecutive integers among the rank values vals
runOfFive(vals) ==
    \E lo \in 2..10 : \A v \in lo..(lo + 4) : \E i \in DOMAIN vals : vals[i] = v

\* five cards of one suit
fiveOfASuit(cards) ==
    \E k \in DOMAIN SUITS :
        Cardinality({i \in DOMAIN cards : cards[i].suit = SUITS[k]}) >= 5

\* C16: 5 to 7 distinct cards without four of a kind, not both straight and
\* flush, in which one rank occurs 3 times and another rank at least twice
\* (a second triple among 7 cards included), evaluate to Full-House.
C16_FullHouse ==
    \A i \in DOMAIN evalCalls :
        LET cards == evalCalls[i].cards
            vals == valuesIn(cards)
        IN  (/\ Len(cards) \in 5..7
             /\ \E v \in 2..14 :
                   /\ timesOf(vals, v) = 3
                   /\ \E w \in 2..14 : w # v /\ timesOf(vals, w) >= 2
             /\ \A v \in 2..14 : timesOf(vals, v) < 4
             /\ ~(runOfFive(vals) /\ fiveOfASuit(cards)))
            => evalCalls[i].rank = "Full-House"

\* C17: for 5 to 7 distinct cards the straight test is true exactly when the
\* distinct rank values contain five consecutive integers, wherever the run
\* lies among them.
C17_StraightDetection ==
    \A i \in DOMAIN evalCalls :
        LET cards == evalCalls[i].cards
        IN  Len(cards) \in 5..7 =>
                (straight(uniqueRanksOf(ranksOf(cards))) <=> runOfFive(valuesIn(cards)))

\* how far the round has advanced: 0 before the flop, 1 with the flop, 2 with
\* the turn, 3 with the river, 4 at the showdown
advances ==
    IF stage = "showdown" THEN 4
    ELSE IF Len(community) = 0 THEN 0
    ELSE Len(community) - 2

\* C19: after a deal, every accepted check or raise that the opponent does
\* not fold to advances the round by exactly one step of empty, flop, turn,
\* river, showdown, so the showdown comes with the fourth such action and
\* not before; a check in Playing is always accepted and never folded to
\* (no step that leaves the round where it is, or folds it, is a check: a
\* check leaves bet alone, so only steps with bet unchanged are candidates);
\* nothing else advances a round, so a round in Playing is at most
\* 4 - advances accepted actions away from Showdown or Folded.
C19_RoundEndsInFourActions ==
    [][ /\ nextStageRan => (advances' = advances + 1 /\ advances' \in 1..4)
        /\ (stage = "playing" /\ stage' = "playing" /\ ~nextStageRan)
              => advances' = advances
        /\ (stage = "ready" /\ stage' = "playing") => advances' = 0
        /\ (stage = "playing" /\ stage' = "showdown") => (nextStageRan /\ advances = 3)
        /\ (stage = "playing" /\ ~nextStageRan /\ bet' = bet) => ~ClickCheck ]_vars

\* showdown reached by a deal and exactly four actions
C19_Witness ==
    /\ stage = "showdown"
    /\ Len(community) = 5
    /\ clicks = 5

\* the game is over: the phase is Ready and a stack is empty
gameOver == stage = "ready" /\ (playerChips <= 0 \/ cpuChips <= 0)

=============================================================================
